---- MODULE Spec2Model ----
(***************************************************************************)
(* Model of the bastion-codex orchestrator (src/orchestrator/ti_run.py):   *)
(* the weekly pipeline run_weekly, the snapshot store (snapshot_state,     *)
(* list_snapshots), the delta calculator (pct_change, compute_deltas), the *)
(* brief composer (generate_weekly_markdown) and the two export sinks.     *)
(*                                                                         *)
(* Files are modelled by their parsed content, directories by functions    *)
(* from the names of the entries they hold.  A Python dict is a function   *)
(* whose DOMAIN is the set of keys present; None is the empty tuple and a  *)
(* present value v is the one-element tuple <<v>>.  Text (file and         *)
(* directory names, dates) is a sequence of character codes, so that the   *)
(* ordering of names is the ordering of the strings the code compares.     *)
(*                                                                         *)
(* A float is modelled by the exact fraction it approximates (numerator    *)
(* and positive denominator in lowest terms); rounding is not modelled.    *)
(* The UTC clock is assumed never to go backwards.                         *)
(***************************************************************************)
EXTENDS Integers, Sequences, FiniteSets, TLC

VARIABLES
    clock,        \* the current UTC day, an index into Calendar
    pc,           \* where run_weekly stands: "idle", a stage, "Done" or "Failed"
    runs,         \* number of runs started so far
    rawmeta,      \* data/raw/meta.json: None, or <<source of the KEV feed>>
    derived,      \* data/derived: file name -> content, for the files present
    hist_exists,  \* whether data/history exists
    history,      \* data/history: directory name -> (file name -> content)
    briefs,       \* data/briefs: file name -> brief
    snap_dir,     \* run_weekly's snap_dir: None or <<directory name>>
    snaps,        \* run_weekly's snaps: None or <<list_snapshots' result>>
    prev_7d,      \* run_weekly's prev_7d: None or <<dict>>
    cur_7d,       \* run_weekly's cur_7d: None or <<dict>>
    delta,        \* run_weekly's delta: None or <<compute_deltas' result>>
    brief_path,   \* run_weekly's brief_path: None or <<file name>>
    trace,        \* the steps this run has executed, in order, each with whether
                  \* what it relies on (download, engine exit status, artifacts) was fine
    raised,       \* None, or <<[at |-> step, error |-> kind]>> for the exception that ended the run
    sinks,        \* per export sink, what this run did to it
    pre_history,  \* data/history as it was when this run started
    pre_briefs,   \* data/briefs as it was when this run started
    captured      \* directory name -> artifacts of the last capture on it that returned

vars == <<clock, pc, runs, rawmeta, derived, hist_exists, history, briefs, snap_dir, snaps, prev_7d, cur_7d, delta, brief_path, trace, raised,
          sinks, pre_history, pre_briefs, captured>>

(***************************************************************************)
(* Bounds of the model.                                                    *)
(***************************************************************************)
MaxDay == 2
MaxRuns == 2
MaxCount == 2

(***************************************************************************)
(* Values.                                                                 *)
(***************************************************************************)
None == <<>>
Some(v) == <<v>>
EmptyDict == <<>>

Get(d, k, default) == IF k \in DOMAIN d THEN d[k] ELSE default

Range(s) == {s[i] : i \in DOMAIN s}

Severities == <<"critical", "high", "medium", "low", "unknown">>
Metrics == {"total"} \cup Range(Severities)

Required == <<"trends_7d.json", "trends_30d.json", "priority_items.json">>

(***************************************************************************)
(* Text: character codes, decimal formatting, string comparison.           *)
(***************************************************************************)
Dash == 45
Zero == 48

Pow10(n) == IF n = 0 THEN 1 ELSE IF n = 1 THEN 10 ELSE IF n = 2 THEN 100 ELSE 1000

\* "%0<width>d" of a natural number below 10^width.
ZeroPadded(n, width) ==
    [i \in 1..width |-> Zero + ((n \div Pow10(width - i)) % 10)]

\* "%d" of a natural number below 10^4.
Decimal(n) ==
    LET w == IF n < 10 THEN 1 ELSE IF n < 100 THEN 2 ELSE IF n < 1000 THEN 3 ELSE 4
    IN  ZeroPadded(n, w)

\* Python's str < str: code point by code point, a proper prefix first.
StrLess(a, b) ==
    \E i \in 1..(Len(a) + 1) :
        /\ \A j \in 1..(i - 1) : j <= Len(b) /\ a[j] = b[j]
        /\ IF i <= Len(a) THEN i <= Len(b) /\ a[i] < b[i] ELSE i <= Len(b)

\* The UTC date on day i of the model: 2024-09-30, 2024-10-01, 2024-10-02, ...
Calendar(i) == IF i = 1 THEN <<2024, 9, 30>> ELSE <<2024, 10, i - 1>>

DateLeq(d, e) ==
    \/ d[1] < e[1]
    \/ d[1] = e[1] /\ d[2] < e[2]
    \/ d[1] = e[1] /\ d[2] = e[2] /\ d[3] <= e[3]

\* A mis-formatting of the date: no zero padding ("2024-9-30").
IsoFormatUnpadded(d) ==
    Decimal(d[1]) \o <<Dash>> \o Decimal(d[2]) \o <<Dash>> \o Decimal(d[3])

\* str(date): "YYYY-MM-DD".
IsoFormat(d) ==
    ZeroPadded(d[1], 4) \o <<Dash>> \o ZeroPadded(d[2], 2) \o <<Dash>> \o ZeroPadded(d[3], 2)

utc_date_str(now) == IsoFormat(Calendar(now))

(***************************************************************************)
(* Fractions, for the one float the code computes.                         *)
(***************************************************************************)
Abs(n) == IF n < 0 THEN -n ELSE n

RECURSIVE Gcd(_, _)
Gcd(a, b) == IF b = 0 THEN a ELSE Gcd(b, a % b)

\* n / d for d # 0, in lowest terms with a positive denominator.
Frac(n, d) ==
    LET g == Gcd(Abs(n), Abs(d))
        s == IF d < 0 THEN -1 ELSE 1
    IN  [num |-> (s * n) \div g, den |-> (s * d) \div g]

FracTimes(f, k) == Frac(f.num * k, f.den)

(***************************************************************************)
(* DeltaCalculator: pct_change and compute_deltas.                         *)
(***************************************************************************)
\* A guard that also refuses new = 0.
pct_change_guard_both(new, old) ==
    IF old = 0 \/ new = 0 THEN None ELSE Some(FracTimes(Frac(new - old, old), 100))

pct_change(new, old) ==
    IF old = 0 THEN None ELSE Some(FracTimes(Frac(new - old, old), 100))

\* compute_deltas' inner sev(d, key); int() of an integer count is that integer.
sev(d, key) == Get(Get(d, "by_severity", EmptyDict), key, 0)

compute_deltas(prev, cur) ==
    LET old_total == Get(prev, "total_items", 0)
        new_total == Get(cur, "total_items", 0)
        old(m) == IF m = "total" THEN old_total ELSE sev(prev, m)
        new(m) == IF m = "total" THEN new_total ELSE sev(cur, m)
    IN  [m \in Metrics |->
            [old |-> old(m), new |-> new(m), delta |-> new(m) - old(m),
             pct |-> pct_change(new(m), old(m))]]

(***************************************************************************)
(* 7-day trend summaries.                                                  *)
(***************************************************************************)
SevRank(k) == CHOOSE i \in DOMAIN Severities : Severities[i] = k

\* A by_severity mapping with the keys in K; the keys get different counts.
SevMap(K, base) == [k \in K |-> (base + SevRank(k)) % (MaxCount + 1)]

SevMaps == {SevMap(K, b) : K \in SUBSET Range(Severities), b \in 0..MaxCount}

Trend(total, by_sev) ==
    [k \in (IF total = None THEN {} ELSE {"total_items"})
           \cup (IF by_sev = None THEN {} ELSE {"by_severity"}) |->
        IF k = "total_items" THEN total[1] ELSE by_sev[1]]

Opt(S) == {None} \cup {Some(x) : x \in S}

Trends7 == {Trend(t, s) : t \in Opt(0..MaxCount), s \in Opt(SevMaps)}

(***************************************************************************)
(* What the external engine may leave in data/derived when it exits 0.     *)
(* Each of the three artifacts is present with some content, or absent.    *)
(***************************************************************************)
AllSev(base) == SevMap(Range(Severities), base)

RunTrends7 ==
    { Trend(Some(0), Some(AllSev(0))),
      Trend(Some(MaxCount), Some(AllSev(1))),
      Trend(None, Some(SevMap({"critical"}, 1))) }

RunTrends30 == { [kev_items |-> 0], [kev_items |-> 1, top_vendors |-> <<<<"acme", 1>>>>] }

RunPriority ==
    { << [id |-> "CVE-1", cvss |-> 7, kev |-> FALSE, short_desc |-> <<97, 98>>],
         [id |-> "CVE-2", kev |-> TRUE, short_desc |-> <<99>>] >> }

Files(t7, t30, prio) ==
    [n \in (IF t7 = None THEN {} ELSE {"trends_7d.json"})
           \cup (IF t30 = None THEN {} ELSE {"trends_30d.json"})
           \cup (IF prio = None THEN {} ELSE {"priority_items.json"}) |->
        IF n = "trends_7d.json" THEN t7[1]
        ELSE IF n = "trends_30d.json" THEN t30[1] ELSE prio[1]]

DerivedOutputs ==
    {Files(t7, t30, prio) :
        t7 \in Opt(RunTrends7), t30 \in Opt(RunTrends30), prio \in Opt(RunPriority)}

(***************************************************************************)
(* Feed acquisition: fetch_kev with its fallback, run_fetch.               *)
(***************************************************************************)
\* fetch_kev without the except branch.
fetch_kev_no_fallback(primary_ok, mirror_ok) ==
    IF primary_ok THEN [attempted |-> <<"primary">>, source |-> Some("cisa")]
    ELSE [attempted |-> <<"primary">>, source |-> None]

fetch_kev(primary_ok, mirror_ok) ==
    IF primary_ok THEN [attempted |-> <<"primary">>, source |-> Some("cisa")]
    ELSE IF mirror_ok
         THEN [attempted |-> <<"primary", "mirror">>, source |-> Some("github_mirror")]
         ELSE [attempted |-> <<"primary", "mirror">>, source |-> None]

\* run_fetch: None when fetch_kev or fetch_nvd_modified raises, else the meta it writes.
run_fetch(primary_ok, mirror_ok, nvd_ok) ==
    LET kev == fetch_kev(primary_ok, mirror_ok)
    IN  IF kev.source = None \/ ~nvd_ok THEN None
        ELSE Some([run_type |-> "fetch", kev_source |-> kev.source[1]])

\* The downloads run_fetch makes, in order, each with its outcome: those of
\* fetch_kev, then, when fetch_kev returned, the one of fetch_nvd_modified.
Downloads(primary_ok, mirror_ok, nvd_ok) ==
    LET kev == fetch_kev(primary_ok, mirror_ok)
    IN  [i \in DOMAIN kev.attempted |->
            [url |-> kev.attempted[i],
             ok  |-> IF kev.attempted[i] = "primary" THEN primary_ok ELSE mirror_ok]]
        \o (IF kev.source = None THEN <<>> ELSE <<[url |-> "nvd", ok |-> nvd_ok]>>)

(***************************************************************************)
(* run_rust: subprocess.run(..., check=True).                              *)
(***************************************************************************)
\* check=False: the exit status is ignored.
run_rust_unchecked(exit_ok) == None

\* None when the engine exits 0, else the exception raised.
run_rust(exit_ok) == IF exit_ok THEN None ELSE Some("CalledProcessError")

(***************************************************************************)
(* SnapshotStore: snapshot_state and list_snapshots.                       *)
(***************************************************************************)
MissingAt(drv) == {i \in DOMAIN Required : Required[i] \notin DOMAIN drv}

Min(S) == CHOOSE x \in S : \A y \in S : x <= y

SnapMeta(today, now) ==
    [snapshot_date |-> today, generated_at |-> Calendar(now),
     paths |-> [n \in Range(Required) |-> <<"data/history", today, n>>]]

\* The snapshot directory after the copy loop and the meta write.  The loop
\* stops at the first missing artifact; what was copied before it stays, and so
\* does whatever the directory held already.
snapshot_files(old_dir, drv, today, now) ==
    LET stop   == IF MissingAt(drv) = {} THEN Len(Required) + 1 ELSE Min(MissingAt(drv))
        copied == {Required[i] : i \in 1..(stop - 1)}
        names  == DOMAIN old_dir \cup copied
                    \cup (IF MissingAt(drv) = {} THEN {"meta.json"} ELSE {})
    IN  [n \in names |->
            IF n \in copied THEN drv[n]
            ELSE IF n = "meta.json" /\ MissingAt(drv) = {} THEN SnapMeta(today, now)
            ELSE old_dir[n]]

\* A store that keeps only the latest snapshot directory.
snapshot_state_keep_latest(hist, drv, now) ==
    LET today == utc_date_str(now)
    IN  [history |-> [n \in {today} |->
                        snapshot_files(Get(hist, today, EmptyDict), drv, today, now)],
         snap_dir |-> today,
         error    |-> IF MissingAt(drv) = {} THEN None ELSE Some("FileNotFoundError")]

\* snapshot_state: data/history after the call, the directory, the exception if any.
snapshot_state(hist, drv, now) ==
    LET today == utc_date_str(now)
    IN  [history |-> [n \in DOMAIN hist \cup {today} |->
                        IF n = today
                        THEN snapshot_files(Get(hist, today, EmptyDict), drv, today, now)
                        ELSE hist[n]],
         snap_dir |-> today,
         error    |-> IF MissingAt(drv) = {} THEN None ELSE Some("FileNotFoundError")]

\* The orders in which iterdir() may yield the entries of a directory.
IterOrders(S) == {s \in [1..Cardinality(S) -> S] : Range(s) = S}

Front(s) == SubSeq(s, 1, Len(s) - 1)

Last(s) == s[Len(s)]

\* Place x behind every element that is not greater than it.
InsertByName(s, x) ==
    LET k == Cardinality({i \in DOMAIN s : ~StrLess(x, s[i])})
    IN  SubSeq(s, 1, k) \o <<x>> \o SubSeq(s, k + 1, Len(s))

RECURSIVE SortByName(_)
SortByName(s) == IF s = <<>> THEN <<>> ELSE InsertByName(SortByName(Front(s)), Last(s))

\* list_snapshots without the sort.
list_snapshots_unsorted(exists, order) == IF ~exists THEN <<>> ELSE order

\* list_snapshots, given the order in which iterdir() yields the directories.
list_snapshots(exists, order) == IF ~exists THEN <<>> ELSE SortByName(order)

(***************************************************************************)
(* BriefComposer: generate_weekly_markdown.                                *)
(***************************************************************************)
CriticalElevated == 50
CriticalModerate == 10
HighVolume == 300
TopN == 10
DescLimit == 140

Take(s, n) == SubSeq(s, 1, IF Len(s) < n THEN Len(s) ELSE n)

\* A sort on the score alone.
PriorityKey_cvss_only(x) == <<0, Get(x, "cvss", 0)>>

\* The sort key (x.get("kev", False), x.get("cvss") or 0).
PriorityKey(x) == <<IF Get(x, "kev", FALSE) THEN 1 ELSE 0, Get(x, "cvss", 0)>>

KeyLess(a, b) == a[1] < b[1] \/ (a[1] = b[1] /\ a[2] < b[2])

\* Descending and stable: x goes behind every element whose key is not smaller.
InsertByKey(s, x) ==
    LET k == Cardinality({i \in DOMAIN s : ~KeyLess(PriorityKey(s[i]), PriorityKey(x))})
    IN  SubSeq(s, 1, k) \o <<x>> \o SubSeq(s, k + 1, Len(s))

RECURSIVE SortPriority(_)
SortPriority(s) == IF s = <<>> THEN <<>> ELSE InsertByKey(SortPriority(Front(s)), Last(s))

\* f * 10 rounded to the nearest integer, ties to even: the digits "%.1f" prints.
RoundTenths(f) ==
    LET n == f.num * 10
        q == n \div f.den
        r == n - q * f.den
    IN  IF 2 * r > f.den THEN q + 1
        ELSE IF 2 * r = f.den THEN q + (q % 2) ELSE q

\* A missing percentage printed as 0.0%.
FormatPct_zero(p) == IF p = None THEN <<0, "%">> ELSE <<RoundTenths(p[1]), "%">>

FormatPct(p) == IF p = None THEN <<"n/a">> ELSE <<RoundTenths(p[1]), "%">>

Title(k) ==
    IF k = "critical" THEN "Critical" ELSE IF k = "high" THEN "High"
    ELSE IF k = "medium" THEN "Medium" ELSE IF k = "low" THEN "Low" ELSE "Unknown"

MovementLine(label, d) ==
    [label |-> label, delta |-> d.delta, old |-> d.old, new |-> d.new,
     pct |-> FormatPct(d.pct)]

Movement(d) ==
    <<MovementLine("Total CVEs", d["total"])>>
        \o [i \in DOMAIN Severities |-> MovementLine(Title(Severities[i]), d[Severities[i]])]

\* Thresholds that include their bound.
Takeaways_inclusive(critical, high, kev) ==
    <<IF critical >= CriticalElevated THEN "elevated"
      ELSE IF critical >= CriticalModerate THEN "moderate" ELSE "below baseline">>
    \o <<IF kev > 0 THEN "kev review" ELSE "no kev movement">>
    \o (IF high >= HighVolume THEN <<"high volume">> ELSE <<>>)

Takeaways(critical, high, kev) ==
    <<IF critical > CriticalElevated THEN "elevated"
      ELSE IF critical > CriticalModerate THEN "moderate" ELSE "below baseline">>
    \o <<IF kev > 0 THEN "kev review" ELSE "no kev movement">>
    \o (IF high > HighVolume THEN <<"high volume">> ELSE <<>>)

\* A watchlist line with the whole description.
WatchLine_untruncated(item) ==
    [id |-> item.id, cvss |-> IF "cvss" \in DOMAIN item THEN Some(item.cvss) ELSE None,
     kev |-> item.kev, desc |-> item.short_desc]

WatchLine(item) ==
    [id |-> item.id, cvss |-> IF "cvss" \in DOMAIN item THEN Some(item.cvss) ELSE None,
     kev |-> item.kev, desc |-> Take(item.short_desc, DescLimit)]

\* `if delta:` -- None and the empty dict are false.
Truthy(d) == d # None /\ DOMAIN d[1] # {}

MovementOf(d) == IF Truthy(d) THEN Some(Movement(d[1])) ELSE None

BriefName(now) == <<"weekly-", IsoFormat(Calendar(now)), ".md">>

\* The exception generate_weekly_markdown raises before it writes, or None.
ComposeError(drv) ==
    IF MissingAt(drv) # {} THEN Some("FileNotFoundError")
    ELSE IF \/ "total_items" \notin DOMAIN drv["trends_7d.json"]
            \/ "by_severity" \notin DOMAIN drv["trends_7d.json"]
            \/ "kev_items" \notin DOMAIN drv["trends_30d.json"]
            \/ \E i \in DOMAIN Take(SortPriority(drv["priority_items.json"]), TopN) :
                  ~({"id", "kev", "short_desc"} \subseteq
                        DOMAIN Take(SortPriority(drv["priority_items.json"]), TopN)[i])
         THEN Some("KeyError")
         ELSE None

\* The brief written to data/briefs, for artifacts on which ComposeError is None.
ComposeBrief(drv, d, now) ==
    LET trends_7  == drv["trends_7d.json"]
        trends_30 == drv["trends_30d.json"]
        priority  == drv["priority_items.json"]
        sev_count(k) == Get(trends_7["by_severity"], k, 0)
    IN  [week_of   |-> IsoFormat(Calendar(now)),
         executive |-> [total |-> trends_7["total_items"], critical |-> sev_count("critical"),
                        high |-> sev_count("high"), kev |-> trends_30["kev_items"]],
         movement  |-> MovementOf(d),
         takeaways |-> Takeaways(sev_count("critical"), sev_count("high"),
                                 trends_30["kev_items"]),
         breakdown |-> [i \in DOMAIN Severities |->
                            <<Title(Severities[i]), sev_count(Severities[i])>>],
         vendors   |-> Take(Get(trends_30, "top_vendors", <<>>), TopN),
         products  |-> Take(Get(trends_30, "top_products", <<>>), TopN),
         watchlist |-> [i \in DOMAIN Take(SortPriority(priority), TopN) |->
                            WatchLine(Take(SortPriority(priority), TopN)[i])],
         generated_at |-> Calendar(now)]

\* A composer that writes the lines to the file as it builds them.
generate_weekly_markdown_streaming(brfs, drv, d, now) ==
    [briefs |-> [n \in DOMAIN brfs \cup {BriefName(now)} |->
                    IF n # BriefName(now) THEN brfs[n]
                    ELSE IF ComposeError(drv) = None THEN ComposeBrief(drv, d, now)
                    ELSE [week_of |-> IsoFormat(Calendar(now))]],
     path   |-> BriefName(now),
     error  |-> ComposeError(drv)]

\* generate_weekly_markdown: data/briefs after the call, the path, the exception if
\* any.  The lines are built in memory; the one write is the last statement.
generate_weekly_markdown(brfs, drv, d, now) ==
    [briefs |-> IF ComposeError(drv) # None THEN brfs
                ELSE [n \in DOMAIN brfs \cup {BriefName(now)} |->
                        IF n = BriefName(now) THEN ComposeBrief(drv, d, now) ELSE brfs[n]],
     path   |-> BriefName(now),
     error  |-> ComposeError(drv)]

(***************************************************************************)
(* PipelineOrchestrator: run_weekly, one action per step.                  *)
(***************************************************************************)
\* The stores behind the export sinks lie outside the run root; the model keeps,
\* per run, what the run did to each: its outcome and the files it wrote.
NoSinks == [obsidian |-> [status |-> "none", wrote |-> {}],
            astro    |-> [status |-> "none", wrote |-> {}]]

Init ==
    /\ clock = 1
    /\ pc = "idle"
    /\ runs = 0
    /\ rawmeta = None
    /\ derived = EmptyDict
    /\ hist_exists = FALSE
    /\ history = EmptyDict
    /\ briefs = EmptyDict
    /\ snap_dir = None
    /\ snaps = None
    /\ prev_7d = None
    /\ cur_7d = None
    /\ delta = None
    /\ brief_path = None
    /\ trace = <<>>
    /\ raised = None
    /\ sinks = NoSinks
    /\ pre_history = EmptyDict
    /\ pre_briefs = EmptyDict
    /\ captured = EmptyDict

\* An uncaught exception ends the process.
Raise(step, error) ==
    /\ pc' = "Failed"
    /\ raised' = Some([at |-> step, error |-> error])

\* run_weekly without its call of snapshot_state.
AfterStep_no_snapshot(step) ==
    IF step = "fetch" THEN "Normalizing"
    ELSE IF step = "normalize" THEN "Deriving"
    ELSE IF step = "derive" THEN "DeltaComputing"
    ELSE IF step = "snapshot" THEN "DeltaComputing"
    ELSE IF step = "delta" THEN "Composing"
    ELSE IF step = "compose" THEN "ExportingObsidian"
    ELSE IF step = "export_obsidian" THEN "ExportingAstro"
    ELSE "Done"

\* The order of the statements of run_weekly: where it stands after a step returned.
AfterStep(step) ==
    IF step = "fetch" THEN "Normalizing"
    ELSE IF step = "normalize" THEN "Deriving"
    ELSE IF step = "derive" THEN "Snapshotting"
    ELSE IF step = "snapshot" THEN "DeltaComputing"
    ELSE IF step = "delta" THEN "Composing"
    ELSE IF step = "compose" THEN "ExportingObsidian"
    ELSE IF step = "export_obsidian" THEN "ExportingAstro"
    ELSE "Done"

Goto(next) ==
    /\ pc' = next
    /\ raised' = raised

Did(step, fine) == trace' = Append(trace, [step |-> step, fine |-> fine])

\* The UTC date changes; this can happen between any two steps.
Tick ==
    /\ clock < MaxDay
    /\ clock' = clock + 1
    /\ UNCHANGED <<pc, runs, rawmeta, derived, hist_exists, history, briefs,
                   snap_dir, snaps, prev_7d, cur_7d, delta, brief_path, trace, raised,
                   sinks, pre_history, pre_briefs, captured>>

\* main() with --weekly: a new process enters run_weekly.
StartRun ==
    /\ pc \in {"idle", "Done", "Failed"}
    /\ runs < MaxRuns
    /\ runs' = runs + 1
    /\ pc' = "Fetching"
    /\ snap_dir' = None
    /\ snaps' = None
    /\ prev_7d' = None
    /\ cur_7d' = None
    /\ delta' = None
    /\ brief_path' = None
    /\ trace' = <<>>
    /\ raised' = None
    /\ sinks' = NoSinks
    /\ pre_history' = history
    /\ pre_briefs' = briefs
    /\ UNCHANGED <<clock, rawmeta, derived, hist_exists, history, briefs, captured>>

\* 1) Fetch.
Fetch ==
    /\ pc = "Fetching"
    /\ \E primary_ok, mirror_ok, nvd_ok \in BOOLEAN :
          LET meta == run_fetch(primary_ok, mirror_ok, nvd_ok)
          IN  /\ trace' = Append(trace, [step |-> "fetch",
                                          fine |-> (primary_ok \/ mirror_ok) /\ nvd_ok,
                                          downloads |-> Downloads(primary_ok, mirror_ok, nvd_ok)])
              /\ IF meta = None
                 THEN Raise("fetch", "DownloadError") /\ rawmeta' = rawmeta
                 ELSE Goto(AfterStep("fetch")) /\ rawmeta' = meta
    /\ UNCHANGED <<clock, runs, derived, hist_exists, history, briefs,
                   snap_dir, snaps, prev_7d, cur_7d, delta, brief_path, sinks,
                   pre_history, pre_briefs, captured>>

\* 2) Normalize.
Normalize ==
    /\ pc = "Normalizing"
    /\ \E exit_ok \in BOOLEAN :
          /\ Did("normalize", exit_ok)
          /\ IF run_rust(exit_ok) = None
             THEN Goto(AfterStep("normalize"))
             ELSE Raise("normalize", run_rust(exit_ok)[1])
    /\ UNCHANGED <<clock, runs, rawmeta, derived, hist_exists, history, briefs, snap_dir, snaps, prev_7d, cur_7d, delta, brief_path, sinks,
                   pre_history, pre_briefs, captured>>

\* 3) Derive.
Derive ==
    /\ pc = "Deriving"
    \* The engine is external: when it exits 0 it may have left any of the three
    \* artifacts present or absent; a failed derive is taken to leave data/derived
    \* as it was (nothing reads it before the next derive).
    /\ \E exit_ok \in BOOLEAN :
          /\ Did("derive", exit_ok)
          /\ IF exit_ok THEN derived' \in DerivedOutputs ELSE derived' = derived
          /\ IF run_rust(exit_ok) = None
             THEN Goto(AfterStep("derive"))
             ELSE Raise("derive", run_rust(exit_ok)[1])
    /\ UNCHANGED <<clock, runs, rawmeta, hist_exists, history, briefs,
                   snap_dir, snaps, prev_7d, cur_7d, delta, brief_path, sinks,
                   pre_history, pre_briefs, captured>>

\* snap_dir = snapshot_state(root).
Snapshot ==
    /\ pc = "Snapshotting"
    /\ Did("snapshot", MissingAt(derived) = {})
    /\ LET r == snapshot_state(history, derived, clock)
       IN  /\ hist_exists' = TRUE
           /\ history' = r.history
           /\ IF r.error = None
              THEN /\ Goto(AfterStep("snapshot"))
                   /\ snap_dir' = Some(r.snap_dir)
                   /\ captured' = [n \in DOMAIN captured \cup {r.snap_dir} |->
                                     IF n = r.snap_dir THEN derived ELSE captured[n]]
              ELSE /\ Raise("snapshot", r.error[1])
                   /\ UNCHANGED <<snap_dir, captured>>
    /\ UNCHANGED <<clock, runs, rawmeta, derived, briefs, snaps, prev_7d, cur_7d, delta,
                   brief_path, sinks, pre_history, pre_briefs>>

\* `len(snaps) >= 1`.
HasHistory_one(ss) == Len(ss) >= 1

\* `len(snaps) >= 2`.
HasHistory(ss) == Len(ss) >= 2

\* json.loads((snap / "trends_7d.json").read_text()): None when the file is absent.
ReadTrends(hist, name) ==
    IF "trends_7d.json" \in DOMAIN hist[name] THEN Some(hist[name]["trends_7d.json"]) ELSE None

\* snaps = list_snapshots(root) and the week-over-week comparison.
DeltaStep ==
    /\ pc = "DeltaComputing"
    /\ \E order \in IterOrders(DOMAIN history) :
          LET ss == list_snapshots(hist_exists, order)
          IN  /\ snaps' = Some(ss)
              /\ IF HasHistory(ss)
                 THEN /\ Did("delta", Len(ss) >= 2 /\ \A i \in {Len(ss) - 1, Len(ss)} :
                                            "trends_7d.json" \in DOMAIN history[ss[i]])
                      /\ IF Len(ss) < 2
                         THEN /\ Raise("delta", "IndexError")
                              /\ UNCHANGED <<prev_7d, cur_7d, delta>>
                         ELSE LET prev == ReadTrends(history, ss[Len(ss) - 1])
                                  cur  == ReadTrends(history, ss[Len(ss)])
                              IN  /\ prev_7d' = prev
                                  /\ cur_7d' = IF prev = None THEN None ELSE cur
                                  /\ IF prev = None \/ cur = None
                                     THEN /\ Raise("delta", "FileNotFoundError")
                                          /\ delta' = None
                                     ELSE /\ Goto(AfterStep("delta"))
                                          /\ delta' = Some(compute_deltas(prev[1], cur[1]))
                 ELSE /\ Goto(AfterStep("delta"))
                      /\ UNCHANGED <<trace, prev_7d, cur_7d, delta>>
    /\ UNCHANGED <<clock, runs, rawmeta, derived, hist_exists, history, briefs, snap_dir, brief_path, sinks, pre_history, pre_briefs, captured>>

\* 4) Generate weekly brief.
Compose ==
    /\ pc = "Composing"
    /\ Did("compose", ComposeError(derived) = None)
    /\ LET r == generate_weekly_markdown(briefs, derived, delta, clock)
       IN  /\ briefs' = r.briefs
           /\ IF r.error = None
              THEN /\ Goto(AfterStep("compose"))
                   /\ brief_path' = Some(r.path)
              ELSE /\ Raise("compose", r.error[1])
                   /\ UNCHANGED brief_path
    /\ UNCHANGED <<clock, runs, rawmeta, derived, hist_exists, history,
                   snap_dir, snaps, prev_7d, cur_7d, delta, sinks, pre_history, pre_briefs, captured>>

ObsidianEnv == {"unset", "vault_missing", "mkdir_fails", "copy_fails", "hub_fails", "ok"}

\* export_to_obsidian(root, brief_path).
ExportObsidian ==
    /\ pc = "ExportingObsidian"
    /\ \E env \in ObsidianEnv :
          /\ Did("export_obsidian", env \in {"unset", "vault_missing", "ok"})
          /\ sinks' = [sinks EXCEPT !.obsidian =
                          [status |-> IF env \in {"unset", "vault_missing"} THEN "skipped"
                                      ELSE IF env = "ok" THEN "written" ELSE "failed",
                           wrote  |-> IF env = "ok" THEN {<<"Briefs", brief_path[1]>>, <<"Hub.md">>}
                                      ELSE IF env = "hub_fails" THEN {<<"Briefs", brief_path[1]>>}
                                      ELSE {}]]
          /\ IF env \in {"mkdir_fails", "copy_fails", "hub_fails"}
             THEN Raise("export_obsidian", "OSError")
             ELSE Goto(AfterStep("export_obsidian"))
    /\ UNCHANGED <<clock, runs, rawmeta, derived, hist_exists, history, briefs,
                   snap_dir, snaps, prev_7d, cur_7d, delta, brief_path, pre_history,
                   pre_briefs, captured>>

AstroEnv == {"unset", "mkdir_fails", "write_fails", "ok"}

\* slugify leaves "bastion-codex-weekly-YYYY-MM-DD" as it is.
AstroSlug(now) == <<"bastion-codex-weekly-", IsoFormat(Calendar(now))>>

\* export_to_astro_blog(root, brief_path); run_weekly returns after it.
ExportAstro ==
    /\ pc = "ExportingAstro"
    /\ \E env \in AstroEnv :
          /\ Did("export_astro", env \in {"unset", "ok"})
          /\ sinks' = [sinks EXCEPT !.astro =
                          [status |-> IF env = "unset" THEN "skipped"
                                      ELSE IF env = "ok" THEN "written" ELSE "failed",
                           wrote  |-> IF env = "ok" THEN {AstroSlug(clock)} ELSE {}]]
          /\ IF env \in {"mkdir_fails", "write_fails"}
             THEN Raise("export_astro", "OSError")
             ELSE Goto(AfterStep("export_astro"))
    /\ UNCHANGED <<clock, runs, rawmeta, derived, hist_exists, history, briefs,
                   snap_dir, snaps, prev_7d, cur_7d, delta, brief_path, pre_history,
                   pre_briefs, captured>>

Next ==
    \/ Tick
    \/ StartRun
    \/ Fetch
    \/ Normalize
    \/ Derive
    \/ Snapshot
    \/ DeltaStep
    \/ Compose
    \/ ExportObsidian
    \/ ExportAstro

Spec == Init /\ [][Next]_vars

(***************************************************************************)
(* compute_deltas on its own: every pair of summaries of Trends7.          *)
(***************************************************************************)
InitDelta ==
    /\ clock = 1
    /\ pc = "compute_deltas"
    /\ runs = 0
    /\ rawmeta = None
    /\ derived = EmptyDict
    /\ hist_exists = FALSE
    /\ history = EmptyDict
    /\ briefs = EmptyDict
    /\ snap_dir = None
    /\ snaps = None
    /\ prev_7d \in {Some(t) : t \in Trends7}
    /\ cur_7d \in {Some(t) : t \in Trends7}
    /\ delta = None
    /\ brief_path = None
    /\ trace = <<>>
    /\ raised = None
    /\ sinks = NoSinks
    /\ pre_history = EmptyDict
    /\ pre_briefs = EmptyDict
    /\ captured = EmptyDict

DeltaCall ==
    /\ pc = "compute_deltas"
    /\ delta' = Some(compute_deltas(prev_7d[1], cur_7d[1]))
    /\ pc' = "returned"
    /\ UNCHANGED <<clock, runs, rawmeta, derived, hist_exists, history, briefs, snap_dir,
                   snaps, prev_7d, cur_7d, brief_path, trace, raised, sinks, pre_history,
                   pre_briefs, captured>>

NextDelta == DeltaCall

SpecDelta == InitDelta /\ [][NextDelta]_vars

(***************************************************************************)
(* The comparison and the brief on their own (run_weekly, lines 96-106):   *)
(* generate_weekly_markdown on artifacts that cover the composer's cases,  *)
(* with or without the 7-day summary of a previous snapshot.               *)
(***************************************************************************)
MaxItems == 12
LongDesc == 200

\* 7-day counts around the thresholds of the takeaways.
CriticalCounts == 0..(CriticalElevated + MaxCount)

HighCounts == (0..MaxCount) \cup ((HighVolume - MaxCount)..(HighVolume + MaxCount))

ThresholdTrends7 ==
    {Trend(Some(c + h), Some([critical |-> c, high |-> h])) :
        c \in CriticalCounts, h \in HighCounts}

KevCounts == {[kev_items |-> k] : k \in 0..MaxCount}

\* A summary that holds nothing but the critical count.
CriticalOnly == [by_severity |-> [critical |-> 5]]

\* Totals of two consecutive weeks.
MovementTrends7 ==
    {Trend(Some(t), Some(s)) :
        t \in {0, 20, 100, 150},
        s \in {AllSev(b) : b \in 0..MaxCount} \cup {SevMap({"critical"}, 1)}}

\* The (kev, cvss) of priority items; cvss may be absent.
Palette ==
    << [kev |-> TRUE,  cvss |-> Some(1)],
       [kev |-> FALSE, cvss |-> Some(10)],
       [kev |-> FALSE, cvss |-> None],
       [kev |-> TRUE,  cvss |-> Some(9)],
       [kev |-> FALSE, cvss |-> Some(0)],
       [kev |-> TRUE,  cvss |-> None] >>

DescLens == <<LongDesc, DescLimit, 1, DescLimit + 1, 0, DescLimit - 1>>

Desc(len, seed) == [j \in 1..len |-> 97 + ((j + seed) % 26)]

Item(i, key, len) ==
    [f \in {"id", "kev", "short_desc"} \cup (IF key.cvss = None THEN {} ELSE {"cvss"}) |->
        IF f = "id" THEN <<"CVE", i>>
        ELSE IF f = "kev" THEN key.kev
        ELSE IF f = "cvss" THEN key.cvss[1]
        ELSE Desc(len, i)]

\* priority_items.json with n items; a and b spread the keys over the items.
PriorityList(n, a, b) ==
    [i \in 1..n |-> Item(i, Palette[((i * a + b) % Len(Palette)) + 1],
                            DescLens[((i + b) % Len(DescLens)) + 1])]

PriorityLists ==
    {PriorityList(n, a, b) : n \in 0..MaxItems, a \in {1, 5}, b \in 0..(Len(Palette) - 1)}

BriefCase(t7, t30, prio, prev) ==
    [derived |-> Files(Some(t7), Some(t30), Some(prio)), prev |-> prev]

BriefCases ==
    {BriefCase(t7, t30, <<>>, None) : t7 \in ThresholdTrends7, t30 \in KevCounts}
    \cup {BriefCase(t7, [kev_items |-> 0], <<>>, prev) :
            t7 \in Trends7 \cup {CriticalOnly},
            prev \in {None, Some(Trend(Some(1), Some(AllSev(1))))}}
    \cup {BriefCase(Trend(Some(1), Some(AllSev(1))), [kev_items |-> 1], prio, None) :
            prio \in PriorityLists}
    \cup {BriefCase(t7, [kev_items |-> 0], <<>>, Some(prev)) :
            t7 \in MovementTrends7, prev \in MovementTrends7}

InitBrief ==
    /\ clock = 1
    /\ pc = "Comparing"
    /\ runs = 0
    /\ rawmeta = None
    /\ \E c \in BriefCases : derived = c.derived /\ prev_7d = c.prev
    /\ hist_exists = FALSE
    /\ history = EmptyDict
    /\ briefs = EmptyDict
    /\ snap_dir = None
    /\ snaps = None
    /\ cur_7d = None
    /\ delta = None
    /\ brief_path = None
    /\ trace = <<>>
    /\ raised = None
    /\ sinks = NoSinks
    /\ pre_history = EmptyDict
    /\ pre_briefs = EmptyDict
    /\ captured = EmptyDict

\* prev_7d, cur_7d and delta of run_weekly, the current snapshot being a copy of
\* data/derived.
Compare ==
    /\ pc = "Comparing"
    /\ pc' = "Composing"
    /\ IF prev_7d = None
       THEN UNCHANGED <<cur_7d, delta>>
       ELSE /\ cur_7d' = Some(derived["trends_7d.json"])
            /\ delta' = Some(compute_deltas(prev_7d[1], derived["trends_7d.json"]))
    /\ UNCHANGED <<clock, runs, rawmeta, derived, hist_exists, history, briefs, snap_dir,
                   snaps, prev_7d, brief_path, trace, raised, sinks, pre_history,
                   pre_briefs, captured>>

NextBrief == Compare \/ Compose

SpecBrief == InitBrief /\ [][NextBrief]_vars

(***************************************************************************)
(* C1.  For every pair of 7-day summaries and each of the six metrics,     *)
(* compute_deltas returns old and new as the summaries' counts (an absent  *)
(* key counting 0), delta = new - old, pct null exactly when old = 0 (also *)
(* when new = 0), and otherwise pct = (new - old) / old * 100.             *)
(***************************************************************************)
CountOf(t, m) ==
    IF m = "total"
    THEN (IF "total_items" \in DOMAIN t THEN t["total_items"] ELSE 0)
    ELSE IF "by_severity" \in DOMAIN t /\ m \in DOMAIN t["by_severity"]
         THEN t["by_severity"][m] ELSE 0

C1_DeltaRecord ==
    pc = "returned" =>
        /\ DOMAIN delta[1] = Metrics
        /\ \A m \in Metrics :
              LET d == delta[1][m]
                  o == CountOf(prev_7d[1], m)
                  n == CountOf(cur_7d[1], m)
              IN  /\ d.old = o
                  /\ d.new = n
                  /\ d.delta = n - o
                  /\ (d.pct = None) <=> (o = 0)
                  /\ o # 0 => /\ d.pct[1].den > 0
                              /\ d.pct[1].num * o = (n - o) * 100 * d.pct[1].den

\* A zero baseline against a non-zero count, a flat zero, and a non-zero baseline
\* that falls to zero, in one call.
C1_Witness ==
    /\ pc = "returned"
    /\ \E m \in Metrics : delta[1][m].old = 0 /\ delta[1][m].new > 0 /\ delta[1][m].pct = None
    /\ \E m \in Metrics : delta[1][m].old = 0 /\ delta[1][m].new = 0 /\ delta[1][m].pct = None
    /\ \E m \in Metrics : delta[1][m].old > 0 /\ delta[1][m].new = 0
                          /\ delta[1][m].pct = Some([num |-> -100, den |-> 1])

(***************************************************************************)
(* Vocabulary of the claims about the store and the pipeline.              *)
(***************************************************************************)
\* The calendar date a directory name denotes: its dash-separated decimal fields.
RECURSIVE ParseFields(_, _, _)
ParseFields(name, acc, fields) ==
    IF name = <<>> THEN Append(fields, acc)
    ELSE IF Head(name) = Dash THEN ParseFields(Tail(name), 0, Append(fields, acc))
    ELSE ParseFields(Tail(name), acc * 10 + (Head(name) - Zero), fields)

DateOf(name) == ParseFields(name, 0, <<>>)

SnapFiles == Range(Required) \cup {"meta.json"}

Complete(dir) == SnapFiles \subseteq DOMAIN dir

\* Every result list_snapshots can return in the current state.
Listings == {list_snapshots(hist_exists, order) : order \in IterOrders(DOMAIN history)}

RaisedAt(step) == raised # None /\ raised[1].at = step

Steps == [i \in DOMAIN trace |-> trace[i].step]

(***************************************************************************)
(* C2.  Snapshot creation is all-or-nothing: when an artifact is missing,  *)
(* snapshot_state fails with the missing-artifact error, and afterwards    *)
(* list_snapshots returns no entry that was not there before the call and  *)
(* no entry that lacks one of the three artifacts or meta.json.            *)
(***************************************************************************)
C2_AllOrNothing ==
    RaisedAt("snapshot") =>
        /\ raised[1].error = "FileNotFoundError"
        /\ \A ss \in Listings : \A i \in DOMAIN ss :
              /\ ss[i] \in DOMAIN pre_history
              /\ Complete(history[ss[i]])

(***************************************************************************)
(* C3.  The history holds at most one snapshot per date, the snapshot      *)
(* stored for a date holds exactly the three artifacts of the last         *)
(* successful capture on that date, and a capture on a date that has a     *)
(* snapshot already does not make the listing longer.                      *)
(***************************************************************************)
C3_LastWriteWins ==
    /\ \A ss \in Listings : \A i, j \in DOMAIN ss : ss[i] = ss[j] => i = j
    /\ (snap_dir # None /\ snap_dir[1] \in DOMAIN pre_history) =>
          \A ss \in Listings : Len(ss) = Cardinality(DOMAIN pre_history)
    /\ \A n \in DOMAIN captured :
          /\ n \in DOMAIN history
          /\ \A f \in Range(Required) :
                f \in DOMAIN history[n] /\ history[n][f] = captured[n][f]

(***************************************************************************)
(* C4.  Whatever the order in which the directory yields its entries,      *)
(* list_snapshots returns every snapshot directory once, in non-decreasing *)
(* order of their dates, and the empty sequence when data/history does not *)
(* exist; the list a run has read is one of these.                         *)
(***************************************************************************)
SortedByDate(ss) ==
    \A i, j \in DOMAIN ss : i < j => DateLeq(DateOf(ss[i]), DateOf(ss[j]))

C4_ListSorted ==
    /\ \A ss \in Listings :
          /\ Range(ss) = DOMAIN history
          /\ Len(ss) = Cardinality(DOMAIN history)
          /\ DOMAIN captured \subseteq Range(ss)
          /\ SortedByDate(ss)
          /\ ~hist_exists => ss = <<>>
    /\ snaps # None => snaps[1] \in Listings

\* A run has listed two snapshots, of September and of October.
C4_Witness ==
    /\ snaps # None
    /\ Len(snaps[1]) = 2
    /\ DateOf(snaps[1][1])[2] < DateOf(snaps[1][2])[2]

(***************************************************************************)
(* C5.  The week-over-week comparison is entered exactly when the history, *)
(* with this run's snapshot in it, has at least 2 entries.  With fewer the *)
(* run goes on to composing with no delta; with 2 or more, and            *)
(* trends_7d.json readable in the two latest snapshots, it goes on with a  *)
(* delta.  A brief written by the run has the movement section exactly     *)
(* when the history had at least 2 entries.                                *)
(***************************************************************************)
Readable(name) == "trends_7d.json" \in DOMAIN history[name]

ReachedComposing == pc = "Composing" \/ "compose" \in Range(Steps)

Upstream == {"fetch", "normalize", "derive"}

C7_FailFast ==
    \A i \in DOMAIN trace :
        (trace[i].step \in Upstream \cup {"snapshot"} /\ ~trace[i].fine) =>
            /\ i = Len(trace)
            /\ pc = "Failed"
            /\ RaisedAt(trace[i].step)
            /\ brief_path = None
            /\ briefs = pre_briefs
            /\ sinks = NoSinks
            /\ trace[i].step \in Upstream =>
                  /\ history = pre_history
                  /\ snap_dir = None

\* The engine fails on the derive step of a run.
C7_Witness ==
    /\ pc = "Failed"
    /\ RaisedAt("derive")
    /\ Len(trace) = 3
    /\ ~trace[3].fine

(***************************************************************************)
(* C8.  Export never fails the run: once the brief has been composed the   *)
(* run does not end in Failed, and a sink that fails does not keep the     *)
(* other sink from being attempted.                                        *)
(***************************************************************************)
C8_ExportNeverFails ==
    brief_path # None =>
        /\ pc # "Failed"
        /\ sinks.obsidian.status = "failed" =>
              (pc = "ExportingAstro" \/ sinks.astro.status # "none")

(***************************************************************************)
(* C9.  The stages of a run occur only in the order Fetching, Deriving,    *)
(* Snapshotting, (DeltaComputing), Composing, Exporting; a run that        *)
(* reaches Done has gone through all of them, DeltaComputing at most       *)
(* excepted, and has created a snapshot exactly once, after the derivation *)
(* succeeded and before the brief was composed.                            *)
(***************************************************************************)
StageOf(step) ==
    IF step = "fetch" THEN "Fetching"
    ELSE IF step \in {"normalize", "derive"} THEN "Deriving"
    ELSE IF step = "snapshot" THEN "Snapshotting"
    ELSE IF step = "delta" THEN "DeltaComputing"
    ELSE IF step = "compose" THEN "Composing"
    ELSE "Exporting"

\* The stages of the steps, a stage of several consecutive steps named once.
RECURSIVE StagesOf(_)
StagesOf(steps) ==
    IF steps = <<>> THEN <<>>
    ELSE LET before == StagesOf(Front(steps))
             stage  == StageOf(Last(steps))
         IN  IF before # <<>> /\ Last(before) = stage THEN before ELSE Append(before, stage)

IsPrefix(s, t) == Len(s) <= Len(t) /\ SubSeq(t, 1, Len(s)) = s

WithDelta ==
    <<"Fetching", "Deriving", "Snapshotting", "DeltaComputing", "Composing", "Exporting">>

WithoutDelta == <<"Fetching", "Deriving", "Snapshotting", "Composing", "Exporting">>

C9_StageOrder ==
    /\ IsPrefix(StagesOf(Steps), WithDelta) \/ IsPrefix(StagesOf(Steps), WithoutDelta)
    /\ pc = "Done" =>
          /\ StagesOf(Steps) \in {WithDelta, WithoutDelta}
          /\ Cardinality({i \in DOMAIN Steps : Steps[i] = "snapshot"}) = 1
          /\ \E i \in DOMAIN Steps :
                /\ Steps[i] = "snapshot"
                /\ trace[i].fine
                /\ \E j \in 1..(i - 1) : Steps[j] = "derive" /\ trace[j].fine
                /\ \E j \in (i + 1)..Len(Steps) : Steps[j] = "compose"
          /\ snap_dir # None
          /\ snap_dir[1] \in DOMAIN history
          /\ Complete(history[snap_dir[1]])
          /\ \A f \in Range(Required) : history[snap_dir[1]][f] = derived[f]

\* A run is Done after a week-over-week comparison.
C9_Witness ==
    /\ pc = "Done"
    /\ StagesOf(Steps) = WithDelta

(***************************************************************************)
(* C10.  No step changes the snapshot of a date other than the current     *)
(* one: every directory of data/history whose name is not today's date     *)
(* stays, with the same artifacts and the same meta.json.                  *)
(***************************************************************************)
OtherDatesKept ==
    \A n \in DOMAIN history :
        n # utc_date_str(clock) => n \in DOMAIN history' /\ history'[n] = history[n]

C10_OtherDatesUntouched == [][OtherDatesKept]_vars

\* A run has captured October's snapshot while September's, complete, is in the
\* history as that run found it.
C10_Witness ==
    /\ snap_dir # None
    /\ \E n \in DOMAIN pre_history :
          /\ n # snap_dir[1]
          /\ Complete(pre_history[n])
          /\ history[n] = pre_history[n]

(***************************************************************************)
(* Vocabulary of the claims about the brief.                               *)
(***************************************************************************)
\* The brief this call of generate_weekly_markdown wrote.
Brief == briefs[brief_path[1]]

Priority == derived["priority_items.json"]

\* Where in priority_items.json the item of a watchlist line stands.
PositionOf(line) == CHOOSE i \in DOMAIN Priority : Priority[i].id = line.id

KevOf(i) == "kev" \in DOMAIN Priority[i] /\ Priority[i].kev

CvssOf(i) == IF "cvss" \in DOMAIN Priority[i] THEN Priority[i].cvss ELSE 0

\* Item i is to be listed before item j.
Outranks(i, j) ==
    \/ KevOf(i) /\ ~KevOf(j)
    \/ KevOf(i) = KevOf(j) /\ CvssOf(i) > CvssOf(j)
    \/ KevOf(i) = KevOf(j) /\ CvssOf(i) = CvssOf(j) /\ i < j

Trends7d == derived["trends_7d.json"]

Trends30d == derived["trends_30d.json"]

Occurs(lines, text) == Cardinality({i \in DOMAIN lines : lines[i] = text})

C12_Takeaways ==
    brief_path # None =>
        LET c == CountOf(Trends7d, "critical")
            h == CountOf(Trends7d, "high")
            k == Trends30d["kev_items"]
            t == Brief.takeaways
        IN  /\ Occurs(t, "elevated") + Occurs(t, "moderate") + Occurs(t, "below baseline") = 1
            /\ Occurs(t, "elevated") = 1 <=> c > 50
            /\ Occurs(t, "moderate") = 1 <=> (10 < c /\ c <= 50)
            /\ Occurs(t, "below baseline") = 1 <=> c <= 10
            /\ Occurs(t, "kev review") + Occurs(t, "no kev movement") = 1
            /\ Occurs(t, "kev review") = 1 <=> k > 0
            /\ Occurs(t, "high volume") = (IF h > 300 THEN 1 ELSE 0)
            /\ Len(t) = 2 + Occurs(t, "high volume")

\* A week at the bounds: 50 critical is still moderate, 301 high gets the note, and
\* no KEV movement.
C12_Witness ==
    /\ brief_path # None
    /\ CountOf(Trends7d, "critical") = 50
    /\ CountOf(Trends7d, "high") = 301
    /\ Brief.takeaways = <<"moderate", "no kev movement", "high volume">>

(***************************************************************************)
(* C13.  Composing from trends_7d = {by_severity: {critical: 5}} and       *)
(* trends_30d = {kev_items: 0} completes, and the takeaways show the       *)
(* below-baseline wording and the no-KEV-movement note; whenever a brief   *)
(* or a delta is produced, a severity key absent from by_severity counts   *)
(* as 0 in it.                                                             *)
(***************************************************************************)
C13_AbsentKeys ==
    "compose" \in Range(Steps) =>
        /\ (Trends7d = CriticalOnly /\ Trends30d = [kev_items |-> 0]) =>
              /\ raised = None
              /\ brief_path # None
              /\ Brief.takeaways = <<"below baseline", "no kev movement">>
        /\ brief_path # None =>
              \A i \in DOMAIN Severities :
                  Brief.breakdown[i] = <<Title(Severities[i]), CountOf(Trends7d, Severities[i])>>
        /\ delta # None =>
              \A k \in Range(Severities) :
                  /\ delta[1][k].new = CountOf(cur_7d[1], k)
                  /\ delta[1][k].old = CountOf(prev_7d[1], k)

(***************************************************************************)
(* C14.  With the 7-day summary of a previous snapshot, the movement       *)
(* section of the brief has a line for the total and one per severity, in  *)
(* that order, each with old from the previous snapshot, new from the      *)
(* current one, delta = new - old, and the percentage: the literal n/a     *)
(* exactly when old is 0, else (new - old) / old * 100 to one decimal.     *)
(* From 100 to 150 it reads old=100, new=150, delta=50, 50.0%; from 0 to   *)
(* 20 it reads n/a.                                                        *)
(***************************************************************************)
MovementLabels == <<"Total CVEs", "Critical", "High", "Medium", "Low", "Unknown">>

MovementMetrics == <<"total">> \o Severities

\* tenths is (new - old) / old * 100 in tenths of a percent, to the nearest.
NearestTenth(tenths, old, new) ==
    2 * Abs(tenths * old - (new - old) * 1000) <= Abs(old)

C14_Movement ==
    (brief_path # None /\ prev_7d # None) =>
        /\ Brief.movement # None
        /\ Len(Brief.movement[1]) = Len(MovementMetrics)
        /\ \A i \in DOMAIN MovementMetrics :
              LET line == Brief.movement[1][i]
                  old  == CountOf(prev_7d[1], MovementMetrics[i])
                  new  == CountOf(Trends7d, MovementMetrics[i])
              IN  /\ line.label = MovementLabels[i]
                  /\ line.old = old
                  /\ line.new = new
                  /\ line.delta = new - old
                  /\ line.pct = <<"n/a">> <=> old = 0
                  /\ old # 0 => /\ Len(line.pct) = 2
                                /\ line.pct[2] = "%"
                                /\ NearestTenth(line.pct[1], old, new)
                  /\ (old = 100 /\ new = 150) => line.pct = <<500, "%">>

\* The total went from 100 to 150 while a severity bucket came up from 0.
C14_Witness ==
    /\ brief_path # None
    /\ prev_7d # None
    /\ Brief.movement[1][1] =
          [label |-> "Total CVEs", delta |-> 50, old |-> 100, new |-> 150, pct |-> <<500, "%">>]
    /\ \E i \in 2..Len(MovementMetrics) :
          /\ Brief.movement[1][i].old = 0
          /\ Brief.movement[1][i].new > 0
          /\ Brief.movement[1][i].pct = <<"n/a">>

(***************************************************************************)
(* C15.  The description of every watchlist line is the first              *)
(* min(140, length) characters of the item's short_desc, unchanged: 200    *)
(* characters are cut to exactly 140, and 140 characters or fewer are      *)
(* shown whole.                                                            *)
(***************************************************************************)
ShortDescOf(line) == Priority[PositionOf(line)].short_desc

C15_Truncation ==
    brief_path # None =>
        \A k \in DOMAIN Brief.watchlist :
            LET line == Brief.watchlist[k]
                full == ShortDescOf(line)
            IN  /\ Len(line.desc) = Min({140, Len(full)})
                /\ \A j \in 1..Len(line.desc) : line.desc[j] = full[j]
                /\ Len(full) = 200 => Len(line.desc) = 140
                /\ Len(full) <= 140 => line.desc = full

\* One watchlist with a description of 200 characters cut to 140, one of 141 cut
\* to 140, and one of 140 shown whole.
C15_Witness ==
    /\ brief_path # None
    /\ \E k \in DOMAIN Brief.watchlist :
          Len(ShortDescOf(Brief.watchlist[k])) = 200 /\ Len(Brief.watchlist[k].desc) = 140
    /\ \E k \in DOMAIN Brief.watchlist :
          Len(ShortDescOf(Brief.watchlist[k])) = 141 /\ Len(Brief.watchlist[k].desc) = 140
    /\ \E k \in DOMAIN Brief.watchlist :
          /\ Len(ShortDescOf(Brief.watchlist[k])) = 140
          /\ Brief.watchlist[k].desc = ShortDescOf(Brief.watchlist[k])

(***************************************************************************)
(* C16.  No partial brief is ever visible: as long as a run has not        *)
(* composed its brief, and when it fails at any stage up to and including  *)
(* composing, data/briefs is as it was before the run; every brief in      *)
(* data/briefs has all of its sections, and the one the run wrote is the   *)
(* one generate_weekly_markdown built from the derived artifacts.          *)
(***************************************************************************)
BriefSections ==
    {"week_of", "executive", "movement", "takeaways", "breakdown", "vendors", "products",
     "watchlist", "generated_at"}

UpToComposing == Upstream \cup {"snapshot", "delta", "compose"}

C16_NoPartialBrief ==
    /\ brief_path = None => briefs = pre_briefs
    /\ (raised # None /\ raised[1].at \in UpToComposing) =>
          (brief_path = None /\ briefs = pre_briefs)
    /\ \A n \in DOMAIN briefs :
          /\ DOMAIN briefs[n] = BriefSections
          /\ n = <<"weekly-", briefs[n].week_of, ".md">>
    /\ brief_path # None =>
          /\ brief_path[1] \in DOMAIN briefs
          /\ \A n \in DOMAIN pre_briefs :
                n # brief_path[1] => (n \in DOMAIN briefs /\ briefs[n] = pre_briefs[n])
          /\ Brief.takeaways = Takeaways(CountOf(Trends7d, "critical"),
                                         CountOf(Trends7d, "high"), Trends30d["kev_items"])
          /\ Brief.executive.total = Trends7d["total_items"]

\* A run fails while the brief is being built, for want of a required field, on a
\* date that has the brief of an earlier run: that brief is as it was.
C16_Witness ==
    /\ RaisedAt("compose")
    /\ raised[1].error = "KeyError"
    /\ BriefName(clock) \in DOMAIN briefs
    /\ briefs = pre_briefs

(***************************************************************************)
(* C17.  Whatever the earlier runs did, a run whose fetch, normalization   *)
(* and derivation succeeded and whose three derived artifacts exist and    *)
(* are well-formed does not fail in snapshotting, in the week-over-week    *)
(* comparison or in composing, and once it is past composing its brief is  *)
(* written.                                                                *)
(***************************************************************************)
Healthy ==
    /\ Len(trace) >= 3
    /\ \A i \in 1..3 : trace[i].fine
    /\ ComposeError(derived) = None

PastComposing == pc \in {"ExportingObsidian", "ExportingAstro", "Done"}

C17_HealthyRunSucceeds ==
    Healthy =>
        /\ ~RaisedAt("snapshot")
        /\ ~RaisedAt("delta")
        /\ ~RaisedAt("compose")
        /\ PastComposing => (brief_path # None /\ brief_path[1] \in DOMAIN briefs)

(***************************************************************************)
(* C18.  Within one run the date that names the snapshot directory, which  *)
(* meta.json records as snapshot_date, is the date that names the brief    *)
(* file and stands in its "Week of" line, also when the clock advances     *)
(* between snapshotting and composing.                                     *)
(***************************************************************************)
C18_SameDate ==
    (snap_dir # None /\ brief_path # None) =>
        /\ history[snap_dir[1]]["meta.json"].snapshot_date = snap_dir[1]
        /\ brief_path[1] = <<"weekly-", snap_dir[1], ".md">>
        /\ Brief.week_of = snap_dir[1]

(***************************************************************************)
(* C19.  fetch_kev downloads from the mirror if and only if the download   *)
(* from the primary failed; the source it reports is cisa when the primary *)
(* succeeded and github_mirror when the primary failed and the mirror      *)
(* succeeded; it fails, and the run with it, only when both failed.        *)
(* data/raw/meta.json is written only by a fetch whose KEV and NVD         *)
(* downloads have both succeeded.                                          *)
(***************************************************************************)
Urls(d) == [i \in DOMAIN d |-> d[i].url]

FetchOutcome ==
    (trace # <<>> /\ trace[1].step = "fetch") =>
        LET d == trace[1].downloads
            kev_ok == \E i \in DOMAIN d : d[i].url \in {"primary", "mirror"} /\ d[i].ok
            nvd_ok == \E i \in DOMAIN d : d[i].url = "nvd" /\ d[i].ok
        IN  /\ d[1].url = "primary"
            /\ ("mirror" \in Range(Urls(d))) <=> ~d[1].ok
            /\ ~d[1].ok => d[2].url = "mirror"
            /\ ("nvd" \in Range(Urls(d))) <=> kev_ok
            /\ (~kev_ok) <=> (~d[1].ok /\ ~d[2].ok)
            /\ ~kev_ok => (pc = "Failed" /\ RaisedAt("fetch") /\ Len(trace) = 1)
            /\ (kev_ok /\ ~nvd_ok) => (pc = "Failed" /\ RaisedAt("fetch") /\ Len(trace) = 1)
            /\ (kev_ok /\ nvd_ok) =>
                  /\ ~RaisedAt("fetch")
                  /\ rawmeta # None
                  /\ rawmeta[1].kev_source = (IF d[1].ok THEN "cisa" ELSE "github_mirror")

MetaWrittenAfterBoth ==
    rawmeta' # rawmeta =>
        /\ trace = <<>>
        /\ Len(trace') = 1
        /\ trace'[1].step = "fetch"
        /\ \A i \in DOMAIN trace'[1].downloads :
              trace'[1].downloads[i].url \in {"mirror", "nvd"} => trace'[1].downloads[i].ok
        /\ "nvd" \in Range(Urls(trace'[1].downloads))

C19_Fallback == [](FetchOutcome) /\ [][MetaWrittenAfterBoth]_vars

\* The primary failed, the mirror and the NVD download succeeded, and meta.json
\* names the mirror as the source.
C19_Witness ==
    /\ trace # <<>>
    /\ trace[1].downloads = <<[url |-> "primary", ok |-> FALSE], [url |-> "mirror", ok |-> TRUE],
                              [url |-> "nvd", ok |-> TRUE]>>
    /\ rawmeta = Some([run_type |-> "fetch", kev_source |-> "github_mirror"])
    /\ pc = "Normalizing"

====
